---- MODULE Spec2Model ----
(***************************************************************************)
(* DataLoom backend: projects, the transformation change log, checkpoints  *)
(* and the save / revert / undo replay over the uploaded CSV files.        *)
(*                                                                         *)
(* A CSV file is a header plus rows; a DataFrame is the same plus the row  *)
(* labels (the pandas index).  read_csv gives fresh labels 0..n-1, to_csv  *)
(* (index=False) drops them.  Cells are text; a column whose cells are all *)
(* numerals has dtype int64, any other column dtype object.                *)
(*                                                                         *)
(* Spec is the service: upload, transform, save, revert, undo, delete.     *)
(* SpecOps is the registry functions called on their own.                  *)
(* SpecWorkers is /transform served by two processes, step by step.        *)
(***************************************************************************)
EXTENDS Integers, Sequences, FiniteSets, TLC

\* ------------------------------------------------------------------ bounds
MaxProjects == 2
MaxLogs == 2
MaxCheckpoints == 2
MaxTime == 1
\* the registry calls: row and column arguments in -MaxIndex..MaxIndex,
\* query strings of at most MaxBlocks blocks
MaxIndex == 3
MaxBlocks == 3

\* -------------------------------------------------------- program constants
\* Column.checkpoint_id nullable, default None: the null reference
NoCheckpoint == 0
\* add_row's placeholder cell
Blank == " "
\* pandas' missing value (written as the empty field by to_csv)
NaN == ""

ProjectIds == 1..MaxProjects
CheckpointIds == 1..MaxCheckpoints
Messages == {"m"}

\* the tables a client uploads
UploadTables == { [columns |-> <<"c">>, rows |-> << <<"a">>, <<"b">> >>] }

\* --------------------------------------------------------------- variables
VARIABLES
    projects,      \* ids of the rows of table "projects"
    uploaded,      \* per project: the file content received by /upload
    original,      \* per project: content of the original file
    working,       \* per project: content of the working copy (_copy.csv)
    logs,          \* rows of table "user_logs"
    checkpoints,   \* rows of table "checkpoints"
    nextProject,   \* next fresh project id
    nextLogId,     \* autoincrement of change_log_id
    nextCkptId,    \* next fresh checkpoint id
    now,           \* the database clock, func.now()
    resp,          \* what the last request saw and answered
    savedTable,    \* per checkpoint: the table its Save returned
    last_modified, \* per project: column projects.last_modified
    call,          \* a call of a registry function: its arguments and outcome
    workers        \* per server process: the /transform request it serves

vars == <<projects, uploaded, original, working, logs, checkpoints,
          nextProject, nextLogId, nextCkptId, now, resp, savedTable,
          last_modified, call, workers>>

\* ------------------------------------------------------------ table codec
NoFrame == [columns |-> <<>>, index |-> <<>>, rows |-> <<>>]
NoTable == [columns |-> <<>>, rows |-> <<>>]

read_csv(csv) ==
    [columns |-> csv.columns,
     index   |-> [i \in 1..Len(csv.rows) |-> i - 1],
     rows    |-> csv.rows]

to_csv(df) == [columns |-> df.columns, rows |-> df.rows]

\* outcome of an operation: a frame, or the exception raised
Ok(df) == [ok |-> TRUE, df |-> df, error |-> "none"]
Raise(kind) == [ok |-> FALSE, df |-> NoFrame, error |-> kind]

\* the server processes that share the upload directory and the database
Workers == {"w1", "w2"}

\* a process that serves no request
Idle ==
    [pc |-> "idle", project_id |-> 0, input |-> [operation_type |-> "none"],
     read |-> NoTable, result |-> NoTable, concurrent |-> {}]

\* no registry function has been called
NoCall == [fn |-> "none"]

\* ------------------------------------------------------ sequence helpers
InsertAt(s, i, e) == SubSeq(s, 1, i) \o <<e>> \o SubSeq(s, i + 1, Len(s))
reset_index(df) == [df EXCEPT !.index = [i \in 1..Len(df.rows) |-> i - 1]]

\* positions (1-based) of the rows carrying label lab
LabelPos(df, lab) == {i \in 1..Len(df.index) : df.index[i] = lab}

\* df.drop(label): removes the rows labelled so, KeyError when there is none
drop(df, lab) ==
    IF LabelPos(df, lab) = {} THEN Raise("KeyError")
    ELSE LET keep == SelectSeq([i \in 1..Len(df.rows) |-> i],
                               LAMBDA i : df.index[i] # lab)
         IN Ok([df EXCEPT !.index = [k \in 1..Len(keep) |-> df.index[keep[k]]],
                          !.rows  = [k \in 1..Len(keep) |-> df.rows[keep[k]]]])

\* -------------------------------------------------------- texts and dtypes
\* int(text) and float(text) for the numerals of the model; any other text
\* raises ValueError
NumeralValue == ("1" :> 1) @@ ("2" :> 2) @@ ("10" :> 10)

\* the cell texts of the model in Python's str order
TextOrder == <<" ", "1", "10", "2", "a", "b">>
TextRank(v) == CHOOSE i \in 1..Len(TextOrder) : TextOrder[i] = v

\* the names that are empty after str.strip()
BlankNames == {"", " "}

\* the dtype read_csv infers for the column at position col: int64 when
\* every cell is a numeral, object otherwise (and for a column without
\* rows); float columns are not in the model
column_dtype(df, col) ==
    IF /\ Len(df.rows) > 0
       /\ \A i \in 1..Len(df.rows) : df.rows[i][col] \in DOMAIN NumeralValue
    THEN "int64" ELSE "object"

\* ----------------------------------------------------- operation registry
add_row(df, index) ==
    IF index < 0 \/ index > Len(df.rows) THEN Raise("TransformationError")
    ELSE LET new_row == [c \in 1..Len(df.columns) |-> Blank]
         IN Ok(reset_index([df EXCEPT !.rows = InsertAt(df.rows, index, new_row),
                                      !.index = InsertAt(df.index, index, index)]))

delete_row(df, index) ==
    IF index < 0 \/ index >= Len(df.rows) THEN Raise("TransformationError")
    ELSE LET d == drop(df, index)
         IN IF d.ok THEN Ok(reset_index(d.df)) ELSE d

\* df.columns[k] with Python's negative indexing; 0 when IndexError
ColumnPos(df, k) ==
    LET n == Len(df.columns)
    IN IF k >= 0 /\ k < n THEN k + 1
       ELSE IF k < 0 /\ k >= -n THEN n + k + 1
       ELSE 0

\* df.at[label, column] = value: sets the labelled row, or appends a new
\* row with that label (NaN in the other columns) when no row carries it
SetAt(df, lab, col, value) ==
    IF LabelPos(df, lab) # {}
    THEN [df EXCEPT !.rows = [i \in 1..Len(df.rows) |->
                                IF df.index[i] = lab
                                THEN [df.rows[i] EXCEPT ![col] = value]
                                ELSE df.rows[i]]]
    ELSE [df EXCEPT !.index = Append(df.index, lab),
                    !.rows = Append(df.rows,
                        [c \in 1..Len(df.columns) |->
                            IF c = col THEN value ELSE NaN])]

change_cell_value(df, row_index, col_index, value) ==
    IF row_index >= Len(df.rows) \/ col_index >= Len(df.columns) + 1
    THEN Raise("TransformationError")
    ELSE IF ColumnPos(df, col_index - 1) = 0 THEN Raise("IndexError")
    ELSE IF /\ column_dtype(df, ColumnPos(df, col_index - 1)) = "int64"
            /\ value \notin DOMAIN NumeralValue
         THEN Raise("TransformationError")
    ELSE Ok(SetAt(df, row_index, ColumnPos(df, col_index - 1), value))

\* ------------------------------------------------- /transform dispatching
\* the request bodies of /transform (TransformationInput)
TransformationInputs ==
    {[operation_type |-> "addRow", row_params |-> [index |-> 0]],
     [operation_type |-> "delRow", row_params |-> [index |-> 0]],
     [operation_type |-> "changeCellValue",
      change_cell_value |-> [row_index |-> 0, col_index |-> 1,
                             fill_value |-> "b"]],
     [operation_type |-> "changeCellValue",
      change_cell_value |-> [row_index |-> 0, col_index |-> -1,
                             fill_value |-> "b"]]}

_handle_basic_transform(df, input) ==
    LET op == input.operation_type
    IN IF op = "addRow" THEN add_row(df, input.row_params.index)
       ELSE IF op = "delRow" THEN delete_row(df, input.row_params.index)
       ELSE IF op = "changeCellValue"
            THEN change_cell_value(df, input.change_cell_value.row_index,
                                   input.change_cell_value.col_index,
                                   input.change_cell_value.fill_value)
       ELSE Raise("HTTPException")

\* ------------------------------------------------------------ replay engine
\* the members of schemas.OperationType
OperationType ==
    {"filter", "sort", "addRow", "delRow", "addCol", "delCol", "fillEmpty",
     "dropDuplicate", "advQueryFilter", "pivotTables", "changeCellValue",
     "renameCol", "castDataType", "trimWhitespace"}

\* the function that apply_logged_transformation's if/elif chain calls for
\* action_type; "none" in the else branch, which logs a warning
ReplayHandler(action_type) ==
    CASE action_type = "addRow" -> "add_row"
      [] action_type = "delRow" -> "drop"
      [] action_type = "addCol" -> "add_column"
      [] action_type = "delCol" -> "delete_column"
      [] action_type = "changeCellValue" -> "change_cell_value"
      [] action_type = "fillEmpty" -> "fill_empty"
      [] action_type = "dropDuplicate" -> "drop_duplicates"
      [] action_type = "renameCol" -> "rename_column"
      [] action_type = "castDataType" -> "cast_data_type"
      [] action_type = "filter" -> "apply_filter"
      [] action_type = "sort" -> "apply_sort"
      [] action_type = "advQueryFilter" -> "advanced_query"
      [] action_type = "pivotTables" -> "pivot_table"
      [] OTHER -> "none"

\* the branches whose entries this model replays, and the else branch; the
\* value for the other handlers is left unspecified
apply_logged_transformation(df, action_type, action_details) ==
    LET handler == ReplayHandler(action_type)
    IN CASE handler = "add_row" ->
              add_row(df, action_details.row_params.index)
         [] handler = "drop" ->
              LET index == action_details.row_params.index
              IN IF index < 0 \/ index >= Len(df.rows)
                 THEN Raise("TransformationError")
                 ELSE drop(df, index)
         [] handler = "change_cell_value" ->
              change_cell_value(df, action_details.change_cell_value.row_index,
                                action_details.change_cell_value.col_index,
                                action_details.change_cell_value.fill_value)
         [] handler = "none" -> Ok(df)

\* the loop "for log in logs: df = apply_logged_transformation(...)";
\* the first exception ends it
RECURSIVE ReplayLogs(_, _)
ReplayLogs(df, ls) ==
    IF ls = <<>> THEN Ok(df)
    ELSE LET r == apply_logged_transformation(df, Head(ls).action_type,
                                              Head(ls).action_details)
         IN IF r.ok THEN ReplayLogs(r.df, Tail(ls)) ELSE r

\* ---------------------------------------------------------------- queries
\* .order_by(timestamp).all(): the rows of S in ascending timestamp; SQL
\* leaves the order of rows with equal timestamps unspecified
OrderByTimestamp(S) ==
    {s \in [1..Cardinality(S) -> S] :
        /\ \A i, j \in 1..Cardinality(S) : i # j => s[i] # s[j]
        /\ \A i, j \in 1..Cardinality(S) : i < j => s[i].timestamp <= s[j].timestamp}

\* the endpoints' filter: project_id == p, applied == False
UnappliedLogs(p) == {l \in logs : l.project_id = p /\ l.applied = FALSE}

\* "not models.ProjectChangeLog.applied": Python's not of the mapped class
\* attribute, an object with neither __bool__ nor __len__, is the constant
\* False, which the query takes as the SQL literal false
NotAppliedColumn == FALSE

\* project_service's filter: project_id == p, not ProjectChangeLog.applied
ServiceUnappliedLogs(p) == {l \in logs : l.project_id = p /\ NotAppliedColumn}

\* status of a request ended by exception e outside /transform's try block
StatusOf(e) == IF e = "TransformationError" THEN 400 ELSE 500

\* what the last request saw and answered: the status and returned table,
\* the checkpoint_id parameter, the handler's list "logs" in fold order,
\* the frame /transform read, undo_last_transformation's result, and the
\* exception a registry operation raised
Response(op, p, status) ==
    [op |-> op, project_id |-> p, status |-> status, table |-> NoTable,
     checkpoint_id |-> NoCheckpoint, logs |-> <<>>, read |-> NoTable,
     deleted_log |-> 0, remaining_count |-> 0, error |-> "none"]

\* the row with the applied flag defaulting to true
NewLog_AppliedByDefault(id, p, operation_type, details, ts) ==
    [change_log_id |-> id,
     project_id |-> p,
     action_type |-> operation_type,
     action_details |-> details,
     timestamp |-> ts,
     checkpoint_id |-> NoCheckpoint,
     applied |-> TRUE]

\* a new row of user_logs with the column defaults
NewLog(id, p, operation_type, details, ts) ==
    [change_log_id |-> id,
     project_id |-> p,
     action_type |-> operation_type,
     action_details |-> details,
     timestamp |-> ts,
     checkpoint_id |-> NoCheckpoint,
     applied |-> FALSE]

\* ------------------------------------------------------------------- Init
Init ==
    /\ projects = {}
    /\ uploaded = <<>>
    /\ original = <<>>
    /\ working = <<>>
    /\ logs = {}
    /\ checkpoints = {}
    /\ nextProject = 1
    /\ nextLogId = 1
    /\ nextCkptId = 1
    /\ now = 0
    /\ resp = Response("none", 0, 0)
    /\ savedTable = <<>>
    /\ last_modified = <<>>
    /\ call = NoCall
    /\ workers = [w \in Workers |-> Idle]

\* a function extended or overwritten at one point, or cut at one point
Put(f, k, v) == [x \in DOMAIN f \cup {k} |-> IF x = k THEN v ELSE f[x]]
Drop(f, k) == [x \in DOMAIN f \ {k} |-> f[x]]

\* get_project_or_404 raised
NotFound(op, p, checkpoint_id) ==
    /\ resp' = [Response(op, p, 404) EXCEPT !.checkpoint_id = checkpoint_id]
    /\ UNCHANGED <<projects, uploaded, original, working, logs, checkpoints,
                   nextProject, nextLogId, nextCkptId, now, savedTable,
                   last_modified, call, workers>>

\* ----------------------------------------------------------------- upload
upload_project(t) ==
    /\ nextProject <= MaxProjects
    /\ LET p == nextProject
       IN /\ uploaded' = Put(uploaded, p, t)
          /\ original' = Put(original, p, t)
          /\ working' = Put(working, p, t)
          /\ projects' = projects \cup {p}
          /\ nextProject' = p + 1
          /\ resp' = [Response("upload", p, 200) EXCEPT
                        !.table = to_csv(read_csv(t))]
          /\ last_modified' = Put(last_modified, p, now)
    /\ UNCHANGED <<logs, checkpoints, nextLogId, nextCkptId, now, savedTable,
                   call, workers>>

\* -------------------------------------------------------------- transform
\* the row is added to the session and never committed
log_transformation_NotCommitted(p, operation_type, details) ==
    /\ logs' = logs
    /\ nextLogId' = nextLogId + 1

log_transformation(p, operation_type, details) ==
    /\ logs' = logs \cup {NewLog(nextLogId, p, operation_type, details, now)}
    /\ nextLogId' = nextLogId + 1

\* the handler saves and logs before it looks at the operation's outcome
transform_project_LogsFailures(p, input) ==
    IF p \notin projects THEN NotFound("transform", p, NoCheckpoint)
    ELSE LET df == read_csv(working[p])
             r == _handle_basic_transform(df, input)
         IN /\ nextLogId <= MaxLogs
            /\ working' = [working EXCEPT ![p] = IF r.ok THEN to_csv(r.df) ELSE @]
            /\ log_transformation(p, input.operation_type, input)
            /\ resp' = IF r.ok
                       THEN [Response("transform", p, 200) EXCEPT
                               !.table = to_csv(r.df), !.read = to_csv(df)]
                       ELSE [Response("transform", p, 400) EXCEPT
                               !.read = to_csv(df), !.error = r.error]
            /\ UNCHANGED <<projects, uploaded, original, checkpoints,
                           nextProject, nextCkptId, now, savedTable,
                           last_modified, call, workers>>

transform_project(p, input) ==
    IF p \notin projects THEN NotFound("transform", p, NoCheckpoint)
    ELSE LET df == read_csv(working[p])
             r == _handle_basic_transform(df, input)
         IN IF ~r.ok
            THEN /\ resp' = [Response("transform", p, 400) EXCEPT
                               !.read = to_csv(df), !.error = r.error]
                 /\ UNCHANGED <<projects, uploaded, original, working, logs,
                                checkpoints, nextProject, nextLogId, nextCkptId,
                                now, savedTable,
                                last_modified, call, workers>>
            ELSE /\ nextLogId <= MaxLogs
                 /\ working' = [working EXCEPT ![p] = to_csv(r.df)]
                 /\ log_transformation(p, input.operation_type, input)
                 /\ resp' = [Response("transform", p, 200) EXCEPT
                               !.table = to_csv(r.df), !.read = to_csv(df)]
                 /\ UNCHANGED <<projects, uploaded, original, checkpoints,
                                nextProject, nextCkptId, now, savedTable,
                                last_modified, call, workers>>

\* ------------------------------------------------------------------- save
\* the per-row update of create_checkpoint's loop
MarkApplied(l, k) == [l EXCEPT !.applied = TRUE, !.checkpoint_id = k]

\* the new checkpoint takes the place of the project's earlier ones
create_checkpoint_ReplacesPrevious(p, message) ==
    LET k == nextCkptId
        marked == ServiceUnappliedLogs(p)
    IN /\ checkpoints' = {c \in checkpoints : c.project_id # p}
                          \cup {[id |-> k, project_id |-> p,
                                  message |-> message, created_at |-> now]}
       /\ logs' = {IF l \in marked THEN MarkApplied(l, k) ELSE l : l \in logs}
       /\ nextCkptId' = k + 1

create_checkpoint(p, message) ==
    LET k == nextCkptId
        marked == ServiceUnappliedLogs(p)
    IN /\ checkpoints' = checkpoints \cup {[id |-> k, project_id |-> p,
                                            message |-> message,
                                            created_at |-> now]}
       /\ logs' = {IF l \in marked THEN MarkApplied(l, k) ELSE l : l \in logs}
       /\ nextCkptId' = k + 1

\* the handler creates the checkpoint before it replays the entries
save_project_CheckpointFirst(p, commit_message) ==
    IF p \notin projects THEN NotFound("save", p, NoCheckpoint)
    ELSE \E ls \in OrderByTimestamp(UnappliedLogs(p)) :
         LET df == read_csv(original[p])
             r == ReplayLogs(df, ls)
         IN IF ~r.ok
            THEN /\ nextCkptId <= MaxCheckpoints
                 /\ create_checkpoint(p, commit_message)
                 /\ resp' = [Response("save", p, StatusOf(r.error)) EXCEPT
                               !.logs = ls, !.error = r.error]
                 /\ UNCHANGED <<projects, uploaded, original, working,
                                nextProject, nextLogId, now, savedTable,
                                last_modified, call, workers>>
            ELSE /\ nextCkptId <= MaxCheckpoints
                 /\ original' = [original EXCEPT ![p] = to_csv(r.df)]
                 /\ create_checkpoint(p, commit_message)
                 /\ savedTable' = Put(savedTable, nextCkptId, to_csv(r.df))
                 /\ resp' = [Response("save", p, 200) EXCEPT
                               !.table = to_csv(r.df), !.logs = ls,
                               !.checkpoint_id = nextCkptId]
                 /\ UNCHANGED <<projects, uploaded, working, nextProject,
                                nextLogId, now,
                                last_modified, call, workers>>

save_project(p, commit_message) ==
    IF p \notin projects THEN NotFound("save", p, NoCheckpoint)
    ELSE \E ls \in OrderByTimestamp(UnappliedLogs(p)) :
         LET df == read_csv(original[p])
             r == ReplayLogs(df, ls)
         IN IF ~r.ok
            THEN /\ resp' = [Response("save", p, StatusOf(r.error)) EXCEPT
                               !.logs = ls, !.error = r.error]
                 /\ UNCHANGED <<projects, uploaded, original, working, logs,
                                checkpoints, nextProject, nextLogId, nextCkptId,
                                now, savedTable,
                                last_modified, call, workers>>
            ELSE /\ nextCkptId <= MaxCheckpoints
                 /\ original' = [original EXCEPT ![p] = to_csv(r.df)]
                 /\ create_checkpoint(p, commit_message)
                 /\ savedTable' = Put(savedTable, nextCkptId, to_csv(r.df))
                 /\ resp' = [Response("save", p, 200) EXCEPT
                               !.table = to_csv(r.df), !.logs = ls,
                               !.checkpoint_id = nextCkptId]
                 /\ UNCHANGED <<projects, uploaded, working, nextProject,
                                nextLogId, now,
                                last_modified, call, workers>>

\* ----------------------------------------------------------------- revert
\* checkpoints of p created at or before checkpoint c
EligibleCheckpointIds(p, c) ==
    {k.id : k \in {k \in checkpoints :
                      k.project_id = p /\ k.created_at <= c.created_at}}

RevertLogs(p, c) ==
    {l \in logs : /\ l.project_id = p
                  /\ l.checkpoint_id \in EligibleCheckpointIds(p, c)
                  /\ l.applied = TRUE}

\* the lookup by id alone, without the project_id filter
TargetCheckpoints_AnyProject(p, checkpoint_id) ==
    {c \in checkpoints : c.id = checkpoint_id}

\* the rows the target checkpoint query selects
TargetCheckpoints(p, checkpoint_id) ==
    {c \in checkpoints : c.id = checkpoint_id /\ c.project_id = p}

\* a revert that also discards the project's unapplied entries
revert_to_checkpoint_DiscardsLogs(p, checkpoint_id) ==
    IF p \notin projects THEN NotFound("revert", p, checkpoint_id)
    ELSE LET df == read_csv(original[p])
             found == TargetCheckpoints(p, checkpoint_id)
         IN IF checkpoint_id # NoCheckpoint /\ found = {}
            THEN NotFound("revert", p, checkpoint_id)
            ELSE \E ls \in (IF checkpoint_id = NoCheckpoint THEN {<<>>}
                            ELSE OrderByTimestamp(
                                    RevertLogs(p, CHOOSE c \in found : TRUE))) :
                 LET r == ReplayLogs(df, ls)
                 IN IF ~r.ok
                    THEN /\ resp' = [Response("revert", p, StatusOf(r.error))
                                       EXCEPT !.logs = ls,
                                              !.checkpoint_id = checkpoint_id,
                                              !.error = r.error]
                         /\ UNCHANGED <<projects, uploaded, original, working,
                                        logs, checkpoints, nextProject,
                                        nextLogId, nextCkptId, now, savedTable,
                                        last_modified, call, workers>>
                    ELSE /\ working' = [working EXCEPT ![p] = to_csv(r.df)]
                         /\ resp' = [Response("revert", p, 200) EXCEPT
                                       !.table = to_csv(r.df), !.logs = ls,
                                       !.checkpoint_id = checkpoint_id]
                         /\ logs' = {l \in logs : l.project_id # p \/ l.applied}
                         /\ UNCHANGED <<projects, uploaded, original,
                                        checkpoints, nextProject, nextLogId,
                                        nextCkptId, now, savedTable,
                                        last_modified, call, workers>>

revert_to_checkpoint(p, checkpoint_id) ==
    IF p \notin projects THEN NotFound("revert", p, checkpoint_id)
    ELSE LET df == read_csv(original[p])
             found == TargetCheckpoints(p, checkpoint_id)
         IN IF checkpoint_id # NoCheckpoint /\ found = {}
            THEN NotFound("revert", p, checkpoint_id)
            ELSE \E ls \in (IF checkpoint_id = NoCheckpoint THEN {<<>>}
                            ELSE OrderByTimestamp(
                                    RevertLogs(p, CHOOSE c \in found : TRUE))) :
                 LET r == ReplayLogs(df, ls)
                 IN IF ~r.ok
                    THEN /\ resp' = [Response("revert", p, StatusOf(r.error))
                                       EXCEPT !.logs = ls,
                                              !.checkpoint_id = checkpoint_id,
                                              !.error = r.error]
                         /\ UNCHANGED <<projects, uploaded, original, working,
                                        logs, checkpoints, nextProject,
                                        nextLogId, nextCkptId, now, savedTable,
                                        last_modified, call, workers>>
                    ELSE /\ working' = [working EXCEPT ![p] = to_csv(r.df)]
                         /\ resp' = [Response("revert", p, 200) EXCEPT
                                       !.table = to_csv(r.df), !.logs = ls,
                                       !.checkpoint_id = checkpoint_id]
                         /\ UNCHANGED <<projects, uploaded, original, logs,
                                        checkpoints, nextProject, nextLogId,
                                        nextCkptId, now, savedTable,
                                        last_modified, call, workers>>

\* ------------------------------------------------------------------- undo
\* .order_by(timestamp.desc()).first(): a row of S with the latest timestamp
LatestByTimestamp(S) == {l \in S : \A m \in S : m.timestamp <= l.timestamp}

\* the handler without "if deleted_log is None": it rebuilds the working
\* copy and then fails on deleted_log.action_type
undo_transformation_SkipsNoneCheck(p) ==
    IF p \notin projects THEN NotFound("undo", p, NoCheckpoint)
    ELSE \E ls \in OrderByTimestamp(UnappliedLogs(p)) :
         LET r == ReplayLogs(read_csv(original[p]), ls)
         IN /\ working' = [working EXCEPT ![p] =
                              IF r.ok THEN to_csv(r.df) ELSE @]
            /\ resp' = [Response("undo", p, 500) EXCEPT
                          !.logs = ls, !.error = r.error]
            /\ UNCHANGED <<projects, uploaded, original, logs, checkpoints,
                           nextProject, nextLogId, nextCkptId, now, savedTable,
                           last_modified, call, workers>>

undo_transformation(p) ==
    IF p \notin projects THEN NotFound("undo", p, NoCheckpoint)
    ELSE IF ServiceUnappliedLogs(p) = {}
    THEN \* undo_last_transformation returned (None, 0)
         /\ resp' = Response("undo", p, 400)
         /\ UNCHANGED <<projects, uploaded, original, working, logs, checkpoints,
                        nextProject, nextLogId, nextCkptId, now, savedTable,
                        last_modified, call, workers>>
    ELSE \E last_log \in LatestByTimestamp(ServiceUnappliedLogs(p)) :
         \E ls \in OrderByTimestamp(UnappliedLogs(p) \ {last_log}) :
         LET df == read_csv(original[p])
             r == ReplayLogs(df, ls)
             remaining == Cardinality(ServiceUnappliedLogs(p) \ {last_log})
         IN /\ logs' = logs \ {last_log}
            /\ IF ~r.ok
               THEN /\ resp' = [Response("undo", p, StatusOf(r.error)) EXCEPT
                                  !.logs = ls, !.error = r.error,
                                  !.deleted_log = last_log.change_log_id,
                                  !.remaining_count = remaining]
                    /\ UNCHANGED working
               ELSE /\ working' = [working EXCEPT ![p] = to_csv(r.df)]
                    /\ resp' = [Response("undo", p, 200) EXCEPT
                                  !.table = to_csv(r.df), !.logs = ls,
                                  !.deleted_log = last_log.change_log_id,
                                  !.remaining_count = remaining]
            /\ UNCHANGED <<projects, uploaded, original, checkpoints, nextProject,
                           nextLogId, nextCkptId, now, savedTable,
                           last_modified, call, workers>>

\* ----------------------------------------------------------------- delete
\* the relationships without cascade="all, delete-orphan"
delete_project_endpoint_NoCascade(p) ==
    IF p \notin projects THEN NotFound("delete", p, NoCheckpoint)
    ELSE /\ original' = Drop(original, p)
         /\ working' = Drop(working, p)
         /\ uploaded' = Drop(uploaded, p)
         /\ projects' = projects \ {p}
         /\ last_modified' = Drop(last_modified, p)
         /\ resp' = Response("delete", p, 200)
         /\ UNCHANGED <<logs, checkpoints, nextProject, nextLogId, nextCkptId,
                        now, savedTable, call, workers>>

\* the deletion of the rows of user_logs and checkpoints without the
\* project_id filter
delete_project_endpoint_NoProjectFilter(p) ==
    IF p \notin projects THEN NotFound("delete", p, NoCheckpoint)
    ELSE /\ original' = Drop(original, p)
         /\ working' = Drop(working, p)
         /\ uploaded' = Drop(uploaded, p)
         /\ projects' = projects \ {p}
         /\ logs' = {}
         /\ checkpoints' = {}
         /\ last_modified' = Drop(last_modified, p)
         /\ resp' = Response("delete", p, 200)
         /\ UNCHANGED <<nextProject, nextLogId, nextCkptId, now, savedTable,
                        call, workers>>

delete_project_endpoint(p) ==
    IF p \notin projects THEN NotFound("delete", p, NoCheckpoint)
    ELSE /\ original' = Drop(original, p)
         /\ working' = Drop(working, p)
         /\ uploaded' = Drop(uploaded, p)
         /\ projects' = projects \ {p}
         /\ logs' = {l \in logs : l.project_id # p}
         /\ checkpoints' = {c \in checkpoints : c.project_id # p}
         /\ last_modified' = Drop(last_modified, p)
         /\ resp' = Response("delete", p, 200)
         /\ UNCHANGED <<nextProject, nextLogId, nextCkptId, now, savedTable,
                        call, workers>>

\* the database clock advances between requests
Tick ==
    /\ now < MaxTime
    /\ now' = now + 1
    /\ UNCHANGED <<projects, uploaded, original, working, logs, checkpoints,
                   nextProject, nextLogId, nextCkptId, resp, savedTable,
                   last_modified, call, workers>>

Next ==
    \/ \E t \in UploadTables : upload_project(t)
    \/ \E p \in ProjectIds, input \in TransformationInputs : transform_project(p, input)
    \/ \E p \in ProjectIds, m \in Messages : save_project(p, m)
    \/ \E p \in ProjectIds, c \in CheckpointIds \cup {NoCheckpoint} :
           revert_to_checkpoint(p, c)
    \/ \E p \in ProjectIds : undo_transformation(p)
    \/ \E p \in ProjectIds : delete_project_endpoint(p)
    \/ Tick

Spec == Init /\ [][Next]_vars

\* ================================================= /transform in processes
\* The handler of /transform served by several processes: it holds no lock
\* and no file transaction, so its steps (the read of the working copy, the
\* write of the result, the insert of the log entry) interleave with the
\* steps of the same handler in another process.

\* the processes that have read the working copy of p and not yet written
InFlight(p) ==
    {v \in Workers : workers[v].pc = "read" /\ workers[v].project_id = p}

\* get_project_or_404, read_csv_safe and the operation, on the frame in
\* memory; "concurrent" keeps which processes were in flight at the read
transform_project_read(w, p, input) ==
    /\ workers[w].pc \in {"idle", "done"}
    /\ p \in projects
    /\ nextLogId + Cardinality({v \in Workers :
                                  workers[v].pc \in {"read", "saved"}})
          <= MaxLogs
    /\ LET df == read_csv(working[p])
           r == _handle_basic_transform(df, input)
           others == [v \in Workers |->
                        [workers[v] EXCEPT !.concurrent = @ \ {w}]]
       IN IF ~r.ok
          THEN /\ resp' = [Response("transform", p, 400) EXCEPT
                             !.read = to_csv(df), !.error = r.error]
               /\ workers' = [others EXCEPT ![w] = Idle]
          ELSE /\ workers' = [others EXCEPT ![w] =
                                [pc |-> "read", project_id |-> p,
                                 input |-> input, read |-> to_csv(df),
                                 result |-> to_csv(r.df),
                                 concurrent |-> InFlight(p) \ {w}]]
               /\ UNCHANGED resp
    /\ UNCHANGED <<projects, uploaded, original, working, logs, checkpoints,
                   nextProject, nextLogId, nextCkptId, now, savedTable,
                   last_modified, call>>

\* the write applies the operation to the file as it is at the write
transform_project_save_ReadsAgain(w) ==
    /\ workers[w].pc = "read"
    /\ LET p == workers[w].project_id
           r == _handle_basic_transform(read_csv(working[p]), workers[w].input)
       IN working' = [working EXCEPT ![p] = IF r.ok THEN to_csv(r.df) ELSE @]
    /\ workers' = [workers EXCEPT ![w].pc = "saved"]
    /\ UNCHANGED <<projects, uploaded, original, logs, checkpoints,
                   nextProject, nextLogId, nextCkptId, now, resp, savedTable,
                   last_modified, call>>

\* save_csv_safe(result_df, project.file_path)
transform_project_save(w) ==
    /\ workers[w].pc = "read"
    /\ working' = [working EXCEPT ![workers[w].project_id] = workers[w].result]
    /\ workers' = [workers EXCEPT ![w].pc = "saved"]
    /\ UNCHANGED <<projects, uploaded, original, logs, checkpoints,
                   nextProject, nextLogId, nextCkptId, now, resp, savedTable,
                   last_modified, call>>

\* log_transformation(...) and the response
transform_project_log(w) ==
    /\ workers[w].pc = "saved"
    /\ log_transformation(workers[w].project_id,
                          workers[w].input.operation_type, workers[w].input)
    /\ resp' = [Response("transform", workers[w].project_id, 200) EXCEPT
                  !.table = workers[w].result, !.read = workers[w].read]
    /\ workers' = [workers EXCEPT ![w].pc = "done"]
    /\ UNCHANGED <<projects, uploaded, original, working, checkpoints,
                   nextProject, nextCkptId, now, savedTable, last_modified,
                   call>>

NextWorkers ==
    \/ \E t \in UploadTables : upload_project(t)
    \/ \E w \in Workers, p \in ProjectIds, input \in TransformationInputs :
           transform_project_read(w, p, input)
    \/ \E w \in Workers : transform_project_save(w)
    \/ \E w \in Workers : transform_project_log(w)
    \/ Tick

SpecWorkers == Init /\ [][NextWorkers]_vars

\* =========================================================== registry calls
\* The registry functions called on their own: the call is drawn with its
\* arguments, then the function is applied and its outcome recorded.

\* --------------------------------------------------------- text, re.search
\* a text is the sequence of its characters
Uppercase == <<"A", "B", "C", "D", "E", "F", "G", "H", "I", "J", "K", "L", "M", "N", "O", "P", "Q", "R", "S", "T", "U", "V", "W", "X", "Y", "Z">>
Lowercase == <<"a", "b", "c", "d", "e", "f", "g", "h", "i", "j", "k", "l", "m", "n", "o", "p", "q", "r", "s", "t", "u", "v", "w", "x", "y", "z">>
Digits == {"0", "1", "2", "3", "4", "5", "6", "7", "8", "9"}

\* the case folding re.IGNORECASE applies to a character
lower(c) ==
    IF \E i \in 1..Len(Uppercase) : Uppercase[i] = c
    THEN Lowercase[CHOOSE i \in 1..Len(Uppercase) : Uppercase[i] = c]
    ELSE c

\* the classes \w and \s
IsWordChar(c) ==
    \/ \E i \in 1..Len(Lowercase) : Lowercase[i] = lower(c)
    \/ c \in Digits
    \/ c = "_"
IsSpace(c) == c \in {" ", "\t", "\n", "\r"}

\* \b at position i of q: a word character on exactly one side
IsBoundary(q, i) ==
    LET before == i > 1 /\ IsWordChar(q[i - 1])
        after  == i <= Len(q) /\ IsWordChar(q[i])
    IN before # after

\* pattern atoms: a literal character, \b, \w+ and \s*
Lit(w) == [i \in 1..Len(w) |-> [t |-> "lit", c |-> w[i]]]
WordBoundary == <<[t |-> "b", c |-> ""]>>
WordChars == <<[t |-> "w+", c |-> ""]>>
Spaces == <<[t |-> "s*", c |-> ""]>>

\* the atoms of pat from k on match q from position i on
RECURSIVE MatchAt(_, _, _, _, _)
MatchAt(pat, k, q, i, ignorecase) ==
    IF k > Len(pat) THEN TRUE
    ELSE LET a == pat[k]
         IN IF a.t = "lit"
            THEN /\ i <= Len(q)
                 /\ IF ignorecase THEN lower(q[i]) = lower(a.c) ELSE q[i] = a.c
                 /\ MatchAt(pat, k + 1, q, i + 1, ignorecase)
            ELSE IF a.t = "b"
            THEN IsBoundary(q, i) /\ MatchAt(pat, k + 1, q, i, ignorecase)
            ELSE IF a.t = "w+"
            THEN \E j \in (i + 1)..(Len(q) + 1) :
                    /\ \A x \in i..(j - 1) : IsWordChar(q[x])
                    /\ MatchAt(pat, k + 1, q, j, ignorecase)
            ELSE \E j \in i..(Len(q) + 1) :
                    /\ \A x \in i..(j - 1) : IsSpace(q[x])
                    /\ MatchAt(pat, k + 1, q, j, ignorecase)

\* re.search(pattern, string, flags) is not None
re_search(pat, q, ignorecase) ==
    \E i \in 1..(Len(q) + 1) : MatchAt(pat, 1, q, i, ignorecase)

_DANGEROUS_PATTERNS ==
    << Lit(<<"_", "_", "i", "m", "p", "o", "r", "t", "_", "_">>),
       Lit(<<"_", "_", "b", "u", "i", "l", "t", "i", "n", "s", "_", "_">>),
       Lit(<<"_", "_", "c", "l", "a", "s", "s", "_", "_">>),
       Lit(<<"_", "_", "s", "u", "b", "c", "l", "a", "s", "s", "e", "s", "_", "_">>),
       Lit(<<"_", "_", "g", "l", "o", "b", "a", "l", "s", "_", "_">>),
       WordBoundary \o Lit(<<"e", "x", "e", "c">>) \o WordBoundary,
       WordBoundary \o Lit(<<"o", "s">>) \o WordBoundary \o Spaces \o Lit(<<".">>),
       WordBoundary \o Lit(<<"s", "y", "s">>) \o WordBoundary \o Spaces \o Lit(<<".">>),
       WordBoundary \o Lit(<<"l", "a", "m", "b", "d", "a">>) \o WordBoundary,
       WordBoundary \o Lit(<<"o", "p", "e", "n">>) \o WordBoundary \o Spaces \o Lit(<<"(">>),
       WordBoundary \o Lit(<<"c", "o", "m", "p", "i", "l", "e">>) \o WordBoundary \o Spaces \o Lit(<<"(">>),
       Lit(<<"_", "_">>) \o WordChars \o Lit(<<"_", "_">>) >>

\* the search without re.IGNORECASE
validate_query_string_CaseSensitive(query) ==
    IF \E k \in 1..Len(_DANGEROUS_PATTERNS) :
          re_search(_DANGEROUS_PATTERNS[k], query, FALSE)
    THEN [ok |-> FALSE, error |-> "HTTPException", query |-> <<>>]
    ELSE [ok |-> TRUE, error |-> "none", query |-> query]

validate_query_string(query) ==
    IF \E k \in 1..Len(_DANGEROUS_PATTERNS) :
          re_search(_DANGEROUS_PATTERNS[k], query, TRUE)
    THEN [ok |-> FALSE, error |-> "HTTPException", query |-> <<>>]
    ELSE [ok |-> TRUE, error |-> "none", query |-> query]

\* df[mask]: the rows at the positions of keep, with their labels
RowsAt(df, keep) ==
    LET ks == SelectSeq([i \in 1..Len(df.rows) |-> i], LAMBDA i : i \in keep)
    IN [df EXCEPT !.index = [k \in 1..Len(ks) |-> df.index[ks[k]]],
                  !.rows  = [k \in 1..Len(ks) |-> df.rows[ks[k]]]]

\* df.query(expr, ...): pandas' expression evaluator is outside this model;
\* it answers with some selection of the rows or raises
df_query(df) ==
    {[ok |-> FALSE, df |-> NoFrame, error |-> "QueryError", evaluated |-> TRUE]}
    \cup {[ok |-> TRUE, df |-> RowsAt(df, keep), error |-> "none",
           evaluated |-> TRUE] : keep \in SUBSET (1..Len(df.rows))}

\* the outcomes of advanced_query; "evaluated" says whether df.query ran
advanced_query(df, query_string) ==
    LET v == validate_query_string(query_string)
    IN IF ~v.ok
       THEN {[ok |-> FALSE, df |-> NoFrame, error |-> v.error,
              evaluated |-> FALSE]}
       ELSE df_query(df)

\* -------------------------------------------- filter and column operations
\* positions of the columns named so
ColumnsNamed(df, column) == {c \in 1..Len(df.columns) : df.columns[c] = column}

get_column_type(df, column) ==
    IF column_dtype(df, CHOOSE c \in ColumnsNamed(df, column) : TRUE) = "int64"
    THEN "numeric" ELSE "string"

\* cell <condition> value, as numbers in a numeric column and as str in a
\* string column, where a missing cell compares false
CompareCell(cell, condition, value, numeric) ==
    IF ~numeric /\ cell = NaN THEN FALSE
    ELSE LET x == IF numeric THEN NumeralValue[cell] ELSE TextRank(cell)
             y == IF numeric THEN NumeralValue[value] ELSE TextRank(value)
         IN IF condition = "=" THEN x = y
            ELSE IF condition = ">" THEN x > y
            ELSE IF condition = "<" THEN x < y
            ELSE IF condition = ">=" THEN x >= y
            ELSE x <= y

apply_filter(df, column, condition, value) ==
    IF ColumnsNamed(df, column) = {} THEN Raise("TransformationError")
    ELSE LET c == CHOOSE c \in ColumnsNamed(df, column) : TRUE
             numeric == get_column_type(df, column) = "numeric"
         IN IF numeric /\ value \notin DOMAIN NumeralValue
            THEN Raise("TransformationError")
            ELSE IF condition \notin {"=", ">", "<", ">=", "<="}
            THEN Raise("TransformationError")
            ELSE Ok(RowsAt(df, {i \in 1..Len(df.rows) :
                        CompareCell(df.rows[i][c], condition, value, numeric)}))

\* df.insert(index, name, None) refuses a name the frame already has
add_column(df, index, name) ==
    IF index < 0 \/ index > Len(df.columns) THEN Raise("TransformationError")
    ELSE IF ColumnsNamed(df, name) # {} THEN Raise("ValueError")
    ELSE Ok([df EXCEPT !.columns = InsertAt(df.columns, index, name),
                       !.rows = [i \in 1..Len(df.rows) |->
                                    InsertAt(df.rows[i], index, NaN)]])

\* df.rename(columns={old_name: new_name}) renames every column named so
rename_column(df, col_index, new_name) ==
    IF col_index < 0 \/ col_index >= Len(df.columns)
    THEN Raise("TransformationError")
    ELSE IF new_name \in BlankNames THEN Raise("TransformationError")
    ELSE LET old_name == df.columns[col_index + 1]
         IN Ok([df EXCEPT !.columns = [c \in 1..Len(df.columns) |->
                    IF df.columns[c] = old_name THEN new_name
                    ELSE df.columns[c]]])

\* ------------------------------------------------------ the calls drawn
\* the tables the functions are called on
OpTables ==
    { [columns |-> <<"name", "age">>,
       rows |-> << <<"a", "1">>, <<"b", "10">>, <<"b", "2">> >>],
      [columns |-> <<"name", "age">>, rows |-> << <<"a", "2">> >>] }

OpIndexes == (0 - MaxIndex)..MaxIndex
OpValues == {"a", "b", "1", "2", "10"}
OpColumns == {"name", "age", "zip"}
OpNames == OpColumns \cup BlankNames
OpConditions == {"=", "!=", ">", "<", ">=", "<=", "contains", "like"}

\* the building blocks of the query strings
QueryBlocks ==
    { <<"_", "_">>,
      <<"i", "m", "p", "o", "r", "t">>,
      <<"I", "m", "p", "o", "r", "t">>,
      <<"b", "u", "i", "l", "t", "i", "n", "s">>,
      <<"l", "a", "m", "b", "d", "a">>,
      <<"L", "A", "M", "B", "D", "A">>,
      <<"x">>, <<" ">>, <<"(">> }

\* the strings of at most n blocks
RECURSIVE QueriesOf(_)
QueriesOf(n) ==
    IF n = 0 THEN {<<>>}
    ELSE LET S == QueriesOf(n - 1)
         IN S \cup {q \o b : q \in S, b \in QueryBlocks}

\* log entries handed to apply_logged_transformation
LoggedEntries ==
    {[operation_type |-> "addRow", row_params |-> [index |-> i]] : i \in 0..1}
    \cup {[operation_type |-> "delRow", row_params |-> [index |-> i]] :
            i \in 0..1}
    \cup {[operation_type |-> "changeCellValue",
           change_cell_value |-> [row_index |-> 0, col_index |-> 1,
                                  fill_value |-> v]] : v \in {"a", "b"}}
    \cup {[operation_type |-> "trimWhitespace",
           trim_whitespace_params |-> [column |-> c]] : c \in OpColumns}

NoOutcome == [ok |-> FALSE, df |-> NoFrame, error |-> "pending"]

Pending(fn, t, args) ==
    [fn |-> fn, df |-> read_csv(t), args |-> args, done |-> FALSE,
     out |-> NoOutcome]

Calls ==
    {Pending("advanced_query", t, [query |-> q]) :
        t \in {t \in OpTables : Len(t.rows) = 1}, q \in QueriesOf(MaxBlocks)}
    \cup {Pending("apply_filter", t,
                  [column |-> c, condition |-> k, value |-> v]) :
            t \in OpTables, c \in OpColumns, k \in OpConditions, v \in OpValues}
    \cup {Pending("change_cell_value", t,
                  [row_index |-> r, col_index |-> c, fill_value |-> v]) :
            t \in OpTables, r \in OpIndexes, c \in OpIndexes, v \in {"b", "2"}}
    \cup {Pending("rename_column", t, [col_index |-> c, new_name |-> n]) :
            t \in OpTables, c \in OpIndexes, n \in OpNames}
    \cup {Pending("add_column", t, [index |-> c, name |-> n]) :
            t \in OpTables, c \in OpIndexes, n \in OpColumns}
    \cup {Pending("apply_logged_transformation", t,
                  [action_type |-> e.operation_type, action_details |-> e]) :
            t \in OpTables, e \in LoggedEntries}

InitOps ==
    /\ projects = {}
    /\ uploaded = <<>>
    /\ original = <<>>
    /\ working = <<>>
    /\ logs = {}
    /\ checkpoints = {}
    /\ nextProject = 1
    /\ nextLogId = 1
    /\ nextCkptId = 1
    /\ now = 0
    /\ resp = Response("none", 0, 0)
    /\ savedTable = <<>>
    /\ last_modified = <<>>
    /\ call \in Calls
    /\ workers = [w \in Workers |-> Idle]

Return(out) ==
    /\ call' = [call EXCEPT !.done = TRUE, !.out = out]
    /\ UNCHANGED <<projects, uploaded, original, working, logs, checkpoints,
                   nextProject, nextLogId, nextCkptId, now, resp, savedTable,
                   last_modified, workers>>

Call_advanced_query ==
    /\ call.fn = "advanced_query" /\ ~call.done
    /\ \E out \in advanced_query(call.df, call.args.query) : Return(out)

Call_apply_filter ==
    /\ call.fn = "apply_filter" /\ ~call.done
    /\ Return(apply_filter(call.df, call.args.column, call.args.condition,
                           call.args.value))

Call_change_cell_value ==
    /\ call.fn = "change_cell_value" /\ ~call.done
    /\ Return(change_cell_value(call.df, call.args.row_index,
                                call.args.col_index, call.args.fill_value))

Call_rename_column ==
    /\ call.fn = "rename_column" /\ ~call.done
    /\ Return(rename_column(call.df, call.args.col_index, call.args.new_name))

Call_add_column ==
    /\ call.fn = "add_column" /\ ~call.done
    /\ Return(add_column(call.df, call.args.index, call.args.name))

\* the outcome with the branch that was taken
Call_apply_logged_transformation ==
    /\ call.fn = "apply_logged_transformation" /\ ~call.done
    /\ Return([handler |-> ReplayHandler(call.args.action_type)]
              @@ apply_logged_transformation(call.df, call.args.action_type,
                                             call.args.action_details))

NextOps ==
    \/ Call_advanced_query
    \/ Call_apply_filter
    \/ Call_change_cell_value
    \/ Call_rename_column
    \/ Call_add_column
    \/ Call_apply_logged_transformation

SpecOps == InitOps /\ [][NextOps]_vars

\* ================================================================= claims

\* C1: the original file of every project that exists holds exactly the
\* content that was uploaded; no transform, save, revert or undo rewrites it
C1_OriginalNeverChanges ==
    \A p \in projects : p \in DOMAIN original /\ original[p] = uploaded[p]

\* C2: a step in which create_checkpoint returns checkpoint K for project p
\* leaves p without unapplied entries, turns every entry of p that was
\* unapplied into an applied one tagged K.id, and keeps all other entries
C2_CheckpointSealsUnapplied ==
    [][\A p \in ProjectIds, m \in Messages :
        (p \in projects /\ save_project(p, m) /\ resp'.status = 200) =>
            /\ \A l \in logs' : l.project_id = p => l.applied
            /\ \A l \in logs : (l.project_id = p /\ ~l.applied) =>
                    /\ MarkApplied(l, resp'.checkpoint_id) \in logs'
                    /\ l \notin logs'
            /\ \A l \in logs : (l.project_id # p \/ l.applied) => l \in logs'
            /\ Cardinality(logs') = Cardinality(logs)]_vars

\* C3: every log entry has applied = true exactly when its checkpoint_id
\* is not null
C3_AppliedIffCheckpoint ==
    \A l \in logs : l.applied <=> (l.checkpoint_id # NoCheckpoint)

\* a Save has just sealed a checkpoint of a project that has log entries
C3_Witness ==
    /\ resp.op = "save" /\ resp.status = 200
    /\ \E l \in logs, k \in checkpoints :
          l.project_id = resp.project_id /\ k.project_id = resp.project_id

\* C4: an Undo that directly follows a successful /transform of operation X
\* on working copy W leaves the working copy equal to W
C4_UndoRestoresWorkingCopy ==
    [][\A p \in ProjectIds :
        (/\ p \in projects
         /\ resp.op = "transform" /\ resp.status = 200 /\ resp.project_id = p
         /\ undo_transformation(p))
        => working'[p] = resp.read]_vars

\* C5: undo_last_transformation on a project with an unapplied entry deletes
\* exactly the unapplied entry with the latest timestamp (the highest
\* change_log_id among equal timestamps), returns it, and returns the
\* previous unapplied count minus 1
C5_UndoDeletesLatestUnapplied ==
    [][\A p \in ProjectIds :
        (p \in projects /\ UnappliedLogs(p) # {} /\ undo_transformation(p)) =>
            \E l \in UnappliedLogs(p) :
                /\ \A m \in UnappliedLogs(p) :
                      \/ m.timestamp < l.timestamp
                      \/ /\ m.timestamp = l.timestamp
                         /\ m.change_log_id <= l.change_log_id
                /\ logs' = logs \ {l}
                /\ resp'.deleted_log = l.change_log_id
                /\ resp'.remaining_count = Cardinality(UnappliedLogs(p)) - 1]_vars

\* C6: a successful Save leaves the working copy equal to the table it
\* returns, the fold in recorded order over the original table of the
\* entries that were unapplied when it started (stated for the Saves that
\* fold in recorded order, so the order of equal timestamps plays no part)
C6_SaveWritesWorkingCopy ==
    [][\A p \in ProjectIds, m \in Messages :
        (/\ p \in projects /\ save_project(p, m) /\ resp'.status = 200
         /\ \A i, j \in 1..Len(resp'.logs) : i < j =>
               resp'.logs[i].change_log_id < resp'.logs[j].change_log_id)
        => /\ working'[p] = resp'.table
           /\ LET r == ReplayLogs(read_csv(original[p]), resp'.logs)
              IN r.ok /\ resp'.table = to_csv(r.df)]_vars

\* C7: after Revert without a checkpoint id the working copy equals the
\* table that was uploaded
C7_RevertToOriginalRestoresUpload ==
    (/\ resp.op = "revert" /\ resp.status = 200
     /\ resp.checkpoint_id = NoCheckpoint)
    => working[resp.project_id] = uploaded[resp.project_id]

\* C8: after Revert to checkpoint C the working copy equals the table that
\* the Save creating C returned (the fold over the uploaded table of the
\* entries sealed by C and by the project's earlier checkpoints)
C8_RevertToCheckpointRestoresSave ==
    (/\ resp.op = "revert" /\ resp.status = 200
     /\ resp.checkpoint_id # NoCheckpoint)
    => working[resp.project_id] = savedTable[resp.checkpoint_id]

\* C9: when Save has produced table T by folding the unapplied entries L,
\* a Revert-to-original that follows it yields a working copy over which
\* folding L gives T again
C9_ReplayDeterminism ==
    [][\A p \in ProjectIds :
        (/\ p \in projects
         /\ resp.op = "save" /\ resp.status = 200 /\ resp.project_id = p
         /\ revert_to_checkpoint(p, NoCheckpoint)
         /\ resp'.status = 200)
        => LET r == ReplayLogs(read_csv(working'[p]), resp.logs)
           IN r.ok /\ to_csv(r.df) = resp.table]_vars

\* C10: Save, Revert and Undo fold their entries in ascending timestamp,
\* entries with equal timestamps in ascending change_log_id
C10_ReplayInRecordedOrder ==
    resp.op \in {"save", "revert", "undo"} =>
        \A i, j \in 1..Len(resp.logs) : i < j =>
            \/ resp.logs[i].timestamp < resp.logs[j].timestamp
            \/ /\ resp.logs[i].timestamp = resp.logs[j].timestamp
               /\ resp.logs[i].change_log_id < resp.logs[j].change_log_id

\* C11: an Undo on a project without unapplied entries answers 400, reports
\* no deleted entry and a count of 0, and leaves the working copy, the
\* original file, every log entry and every checkpoint as they were
C11_UndoWithoutEntriesIsNoOp ==
    [][\A p \in ProjectIds :
        (p \in projects /\ UnappliedLogs(p) = {} /\ undo_transformation(p)) =>
            /\ resp'.status = 400
            /\ resp'.deleted_log = 0 /\ resp'.remaining_count = 0
            /\ working' = working /\ original' = original
            /\ logs' = logs /\ checkpoints' = checkpoints]_vars

\* an Undo has just been answered for a project that has no unapplied entry
C11_Witness ==
    /\ resp.op = "undo" /\ resp.status = 400
    /\ resp.project_id \in projects
    /\ UnappliedLogs(resp.project_id) = {}

\* C12: every successful log_transformation (a /transform that succeeds)
\* and every create_checkpoint (a Save that succeeds) leaves the project's
\* last_modified strictly greater than it was (stated for the calls made
\* at a later instant of the database clock than the last modification)
C12_WritesBumpLastModified ==
    [][\A p \in ProjectIds :
        /\ \A input \in TransformationInputs :
              (/\ p \in projects /\ now > last_modified[p]
               /\ transform_project(p, input) /\ resp'.status = 200)
              => last_modified'[p] > last_modified[p]
        /\ \A m \in Messages :
              (/\ p \in projects /\ now > last_modified[p]
               /\ save_project(p, m) /\ resp'.status = 200)
              => last_modified'[p] > last_modified[p]]_vars

\* C13: a /transform whose operation raises (TransformationError or any
\* other exception) is answered with a 4xx status, leaves every working
\* copy as it was and adds no log entry
C13_FailedTransformChangesNothing ==
    [][\A p \in ProjectIds, input \in TransformationInputs :
        (/\ p \in projects
         /\ resp'.op = "transform" /\ resp'.project_id = p
         /\ ~_handle_basic_transform(read_csv(working[p]), input).ok
         /\ transform_project(p, input))
        => /\ resp'.status \in 400..499
           /\ working' = working
           /\ logs' = logs]_vars

\* a /transform has just failed with TransformationError on a project
C13_Witness ==
    /\ resp.op = "transform" /\ resp.status = 400
    /\ resp.project_id \in projects
    /\ resp.error = "TransformationError"

\* C14: a /transform that succeeds writes the operation's result to the
\* working copy and adds exactly one log entry, of that project, with the
\* requested operation as action_type, the request as action_details,
\* applied = false and checkpoint_id = null; every other entry stays
C14_TransformLogsOneEntry ==
    [][\A p \in ProjectIds, input \in TransformationInputs :
        (/\ p \in projects
         /\ resp'.op = "transform" /\ resp'.project_id = p
         /\ resp'.status = 200
         /\ transform_project(p, input))
        => /\ working'[p] = resp'.table
           /\ resp'.table =
                 to_csv(_handle_basic_transform(read_csv(working[p]), input).df)
           /\ \E l \in logs' \ logs :
                 /\ logs' = logs \cup {l}
                 /\ l.project_id = p
                 /\ l.action_type = input.operation_type
                 /\ l.action_details = input
                 /\ l.applied = FALSE
                 /\ l.checkpoint_id = NoCheckpoint]_vars

\* a /transform has just succeeded and its entry is in the log
C14_Witness ==
    /\ resp.op = "transform" /\ resp.status = 200
    /\ \E l \in logs : l.project_id = resp.project_id /\ ~l.applied

\* w occurs in q at position i, letter case aside
OccursAt(q, i, w) ==
    /\ i + Len(w) - 1 <= Len(q)
    /\ \A k \in 1..Len(w) : lower(q[i + k - 1]) = lower(w[k])

\* q contains the text w; q contains w as a word; q contains a token of
\* the form __name__
ContainsText(q, w) == \E i \in 1..Len(q) : OccursAt(q, i, w)
ContainsWord(q, w) ==
    \E i \in 1..Len(q) :
        /\ OccursAt(q, i, w)
        /\ i = 1 \/ ~IsWordChar(q[i - 1])
        /\ i + Len(w) > Len(q) \/ ~IsWordChar(q[i + Len(w)])
ContainsDunderToken(q) ==
    \E i, j \in 1..Len(q) :
        /\ j >= i + 4
        /\ q[i] = "_" /\ q[i + 1] = "_" /\ q[j - 1] = "_" /\ q[j] = "_"
        /\ \A x \in (i + 2)..(j - 2) : IsWordChar(q[x])

\* C15: a query string that contains __import__, __builtins__, the word
\* lambda or a token of the form __name__, in any letter case, is rejected
\* by validate_query_string, and advanced_query raises for it without
\* evaluating it
C15_GuardRejectsDangerousQueries ==
    (/\ call.fn = "advanced_query" /\ call.done
     /\ \/ ContainsText(call.args.query, <<"_", "_", "i", "m", "p", "o", "r", "t", "_", "_">>)
        \/ ContainsText(call.args.query, <<"_", "_", "b", "u", "i", "l", "t", "i", "n", "s", "_", "_">>)
        \/ ContainsWord(call.args.query, <<"l", "a", "m", "b", "d", "a">>)
        \/ ContainsDunderToken(call.args.query))
    => /\ ~validate_query_string(call.args.query).ok
       /\ ~call.out.ok /\ call.out.error = "HTTPException"
       /\ ~call.out.evaluated

\* advanced_query has rejected a query with the word lambda in capitals
C15_Witness ==
    /\ call.fn = "advanced_query" /\ call.done
    /\ ContainsWord(call.args.query, <<"l", "a", "m", "b", "d", "a">>)
    /\ \E i \in 1..Len(call.args.query) : call.args.query[i] = "L"
    /\ ~call.out.evaluated

\* C16: whenever a registry operation fails, in /transform or in the replay
\* of save, revert or undo, the exception is a TransformationError
C16_OnlyTransformationError ==
    (resp.op \in {"transform", "save", "revert", "undo"} /\ resp.error # "none")
        => resp.error = "TransformationError"

\* the characters of the cell texts
TextChars ==
    (" " :> <<" ">>) @@ ("1" :> <<"1">>) @@ ("10" :> <<"1", "0">>)
    @@ ("2" :> <<"2">>) @@ ("a" :> <<"a">>) @@ ("b" :> <<"b">>)

\* the cell satisfies the condition against the value: numbers compare as
\* numbers, texts as texts
Satisfies(cell, condition, value, numeric) ==
    LET x == IF numeric THEN NumeralValue[cell] ELSE TextRank(cell)
        y == IF numeric THEN NumeralValue[value] ELSE TextRank(value)
    IN IF condition = "=" THEN x = y
       ELSE IF condition = "!=" THEN x # y
       ELSE IF condition = ">" THEN x > y
       ELSE IF condition = "<" THEN x < y
       ELSE IF condition = ">=" THEN x >= y
       ELSE IF condition = "<=" THEN x <= y
       ELSE ContainsText(TextChars[cell], TextChars[value])

\* C17: apply_filter with one of the seven conditions =, !=, >, <, >=, <=,
\* contains on a column of the table returns the rows, in input order, whose
\* cell satisfies the condition (stated for values that are numbers when
\* the column is numeric); with another condition or an unknown column it
\* raises TransformationError
C17_FilterSevenConditions ==
    (call.fn = "apply_filter" /\ call.done) =>
        LET df == call.df
            a == call.args
            known == \E c \in 1..Len(df.columns) : df.columns[c] = a.column
            c == CHOOSE c \in 1..Len(df.columns) : df.columns[c] = a.column
            numeric == \A i \in 1..Len(df.rows) :
                          df.rows[i][c] \in DOMAIN NumeralValue
        IN IF ~known \/ a.condition \notin
                           {"=", "!=", ">", "<", ">=", "<=", "contains"}
           THEN ~call.out.ok /\ call.out.error = "TransformationError"
           ELSE (numeric => a.value \in DOMAIN NumeralValue) =>
                /\ call.out.ok
                /\ call.out.df.columns = df.columns
                /\ call.out.df.rows =
                     SelectSeq(df.rows, LAMBDA row :
                        Satisfies(row[c], a.condition, a.value, numeric))

\* C18: change_cell_value with 0 <= row_index < rowCount and
\* 1 <= col_index <= colCount sets the cell at row row_index and column
\* position col_index - 1 and no other (stated for values the column's
\* dtype accepts); with an index outside those ranges it raises
\* TransformationError
C18_ChangeCellValueBounds ==
    (call.fn = "change_cell_value" /\ call.done) =>
        LET df == call.df
            a == call.args
        IN IF /\ 0 <= a.row_index /\ a.row_index < Len(df.rows)
              /\ 1 <= a.col_index /\ a.col_index <= Len(df.columns)
           THEN ((\A i \in 1..Len(df.rows) :
                     df.rows[i][a.col_index] \in DOMAIN NumeralValue)
                 => a.fill_value \in DOMAIN NumeralValue)
                => /\ call.out.ok
                   /\ call.out.df =
                        [df EXCEPT !.rows[a.row_index + 1][a.col_index] =
                                       a.fill_value]
           ELSE ~call.out.ok /\ call.out.error = "TransformationError"

\* C19: a registry operation that succeeds on a table with unique column
\* names returns a table with unique column names in which every row has
\* one value per column
C19_ColumnNamesStayUnique ==
    (/\ call.done /\ call.out.ok
     /\ \A i, j \in 1..Len(call.df.columns) :
           i # j => call.df.columns[i] # call.df.columns[j])
    => /\ \A i, j \in 1..Len(call.out.df.columns) :
             i # j => call.out.df.columns[i] # call.out.df.columns[j]
       /\ \A i \in 1..Len(call.out.df.rows) :
             Len(call.out.df.rows[i]) = Len(call.out.df.columns)

\* C20: deleting a project removes its row, its log entries, its
\* checkpoints and both its files; afterwards transform, save, revert and
\* undo for that id answer 404 and bring nothing back
C20_DeleteRemovesEverything ==
    [][\A p \in ProjectIds :
        /\ (p \in projects /\ delete_project_endpoint(p)) =>
              /\ p \notin projects'
              /\ \A l \in logs' : l.project_id # p
              /\ \A c \in checkpoints' : c.project_id # p
              /\ p \notin DOMAIN working' /\ p \notin DOMAIN original'
        /\ (p < nextProject /\ p \notin projects) =>
              /\ \A l \in logs : l.project_id # p
              /\ \A c \in checkpoints : c.project_id # p
              /\ ( \/ \E input \in TransformationInputs :
                        transform_project(p, input)
                   \/ \E m \in Messages : save_project(p, m)
                   \/ \E c \in CheckpointIds \cup {NoCheckpoint} :
                        revert_to_checkpoint(p, c)
                   \/ undo_transformation(p) )
                 => /\ resp'.status = 404
                    /\ UNCHANGED <<projects, logs, checkpoints, working,
                                   original>>]_vars

\* the only project ever uploaded, which had log entries and a checkpoint,
\* has just been deleted
C20_Witness ==
    /\ resp.op = "delete" /\ resp.status = 200
    /\ nextProject = 2 /\ nextLogId > 1 /\ nextCkptId > 1

\* C21: a Revert of an existing project that names a checkpoint id which no
\* checkpoint has, or which a checkpoint of another project has, is answered
\* 404 and changes neither the working copy, nor the original, nor any log
\* entry, nor any checkpoint.
C21_RevertUnknownCheckpoint ==
    [][\A p \in ProjectIds, c \in CheckpointIds :
          (/\ p \in projects
           /\ resp'.op = "revert" /\ resp'.project_id = p
           /\ ~(\E k \in checkpoints : k.id = c /\ k.project_id = p)
           /\ revert_to_checkpoint(p, c))
          => /\ resp'.status = 404
             /\ UNCHANGED <<working, original, logs, checkpoints>>]_vars

\* a Revert was answered 404 for a checkpoint that another project owns
C21_Witness ==
    /\ resp.op = "revert" /\ resp.status = 404
    /\ resp.project_id \in projects
    /\ \E k \in checkpoints :
          k.id = resp.checkpoint_id /\ k.project_id # resp.project_id

\* the rows of S in the order they were recorded
InRecordedOrder(S) ==
    CHOOSE s \in [1..Cardinality(S) -> S] :
        \A i, j \in 1..Cardinality(S) :
            i < j => s[i].change_log_id < s[j].change_log_id

\* the fold of p's logged entries over p's uploaded table is the working copy
ReplayAgrees(p) ==
    LET r == ReplayLogs(read_csv(uploaded[p]),
                        InRecordedOrder({l \in logs : l.project_id = p}))
    IN r.ok /\ to_csv(r.df) = working[p]

\* C22: when the fold of the entries logged so far gives the working copy
\* and one more operation succeeds directly on the working copy, the fold
\* of the entries with the new one also succeeds and gives the new working
\* copy: replay through apply_logged_transformation agrees with direct
\* application on every sequence of operations that succeed directly.
C22_ReplayEqualsDirect ==
    [][\A p \in ProjectIds :
          (/\ p \in projects
           /\ resp'.op = "transform" /\ resp'.project_id = p
           /\ resp'.status = 200
           /\ ReplayAgrees(p))
          => ReplayAgrees(p)']_vars



\* C23: apply_logged_transformation has a branch for every kind of
\* OperationType: a logged entry of an enumerated kind is handed to that
\* kind's operation, never answered by the else branch, which returns the
\* table as it was given.
C23_ReplayKnowsEveryKind ==
    (/\ call.fn = "apply_logged_transformation" /\ call.done
     /\ call.args.action_type \in OperationType)
    => call.out.handler # "none"

\* C24: a Revert creates, deletes and modifies no log entry and no
\* checkpoint and does not write the original file of any project; of the
\* working copies it changes at most the one of the project it reverts.
C24_RevertChangesOnlyWorkingCopy ==
    [][\A p \in ProjectIds, c \in CheckpointIds \cup {NoCheckpoint} :
          (/\ resp'.op = "revert" /\ resp'.project_id = p
           /\ revert_to_checkpoint(p, c))
          => /\ UNCHANGED <<logs, checkpoints, original>>
             /\ \A q \in projects \ {p} : working'[q] = working[q]]_vars

\* a Revert has rewritten the working copy of a project that has log
\* entries and a checkpoint
C24_Witness ==
    /\ resp.op = "revert" /\ resp.status = 200
    /\ resp.project_id \in projects
    /\ working[resp.project_id] = resp.table
    /\ \E l \in logs : l.project_id = resp.project_id
    /\ \E k \in checkpoints : k.project_id = resp.project_id

BothReadBeforeEitherWrote(w, v) ==
    /\ w # v
    /\ workers[w].pc = "done" /\ workers[v].pc = "done"
    /\ v \in workers[w].concurrent

\* C26: when two /transform requests on one project have both read the
\* working copy before either wrote it, then after both have ended the
\* working copy is the result of one of them alone, computed from the table
\* that request read, and the log holds the entries of both.
C26_LastWriterWins ==
    \A w, v \in Workers :
        BothReadBeforeEitherWrote(w, v) =>
            LET p == workers[w].project_id
            IN /\ workers[v].project_id = p
               /\ working[p] \in {workers[w].result, workers[v].result}
               /\ \E l, m \in logs :
                     /\ l # m /\ l.project_id = p /\ m.project_id = p
                     /\ l.action_details = workers[w].input
                     /\ m.action_details = workers[v].input

\* such a state in which the working copy is not the fold of the logged
\* entries over the original
C26_Witness ==
    \E w, v \in Workers :
        /\ BothReadBeforeEitherWrote(w, v)
        /\ LET p == workers[w].project_id
               r == ReplayLogs(read_csv(original[p]),
                               InRecordedOrder({l \in logs : l.project_id = p}))
           IN ~r.ok \/ to_csv(r.df) # working[p]

\* C28: a Save in which the replay of the unapplied entries fails creates no
\* checkpoint, changes no log entry, and leaves the original file and the
\* working copy as they were.
C28_FailedSaveChangesNothing ==
    [][\A p \in ProjectIds, m \in Messages :
          (/\ p \in projects
           /\ resp'.op = "save" /\ resp'.project_id = p
           /\ ~ReplayLogs(read_csv(original[p]), resp'.logs).ok
           /\ save_project(p, m))
          => UNCHANGED <<checkpoints, logs, original, working>>]_vars

\* a Save has ended with the exception its replay raised
C28_Witness ==
    /\ resp.op = "save" /\ resp.status \in {400, 500}
    /\ resp.error # "none"
    /\ resp.project_id \in projects
    /\ ~ReplayLogs(read_csv(original[resp.project_id]), resp.logs).ok

\* the log entries and the checkpoints of project q
RowsOf(q) ==
    <<{l \in logs : l.project_id = q}, {c \in checkpoints : c.project_id = q}>>

\* C30: a transform, save, revert, undo or delete request on one project
\* leaves every other project in place, with its log entries, its
\* checkpoints, its original file and its working copy as they were.
C30_ProjectsAreIsolated ==
    [][\A p \in ProjectIds :
          (/\ resp'.op \in {"transform", "save", "revert", "undo", "delete"}
           /\ resp'.project_id = p)
          => \A q \in projects \ {p} :
                /\ q \in projects'
                /\ original'[q] = original[q]
                /\ working'[q] = working[q]
                /\ RowsOf(q)' = RowsOf(q)]_vars

\* a project was deleted while another project with a log entry and a
\* checkpoint exists
C30_Witness ==
    /\ resp.op = "delete" /\ resp.status = 200
    /\ \E q \in projects :
          /\ \E l \in logs : l.project_id = q
          /\ \E c \in checkpoints : c.project_id = q

====
